---- MODULE Spec2Model ----
(***************************************************************************)
(* A model of webgpu-triangle-js (src/main.js): the start-up sequence of   *)
(* initWebGPU, the click listener, the frame() callback driven by          *)
(* requestAnimationFrame, and the pure function createTransformationMatrix *)
(* with JavaScript's number semantics (IEEE-754 doubles, and the rounding  *)
(* to float32 that `new Float32Array([...])` performs).                    *)
(***************************************************************************)
EXTENDS Integers, Sequences, FiniteSets, TLC

(***************************************************************************)
(* Bounds of the model.                                                    *)
(***************************************************************************)
\* refresh ticks the host delivers in the interactive specification
MaxFrames == 6
\* click events the host dispatches on the canvas
MaxClicks == 3
\* refresh ticks of the long uninterrupted run (0.01 * 629 > 2*pi)
MaxLongFrames == 640

(***************************************************************************)
(* Numbers.  A JavaScript Number is modelled exactly: its magnitude is a   *)
(* natural number of units of 2^-60, written as a little-endian sequence   *)
(* of base-2^10 digits without leading zero digits (TLC's integers are 32  *)
(* bits wide, a double's significand is 53).  Every finite double of       *)
(* magnitude 0 or >= 2^-7 is such a multiple.  -0 is identified with +0;   *)
(* NaN, the infinities and the subnormal range are outside the model.      *)
(***************************************************************************)
Base == 2^10

RECURSIVE Trim(_)
Trim(ds) ==
  IF ds = <<>> THEN <<>>
  ELSE IF ds[Len(ds)] = 0 THEN Trim(SubSeq(ds, 1, Len(ds) - 1))
  ELSE ds

RECURSIVE AddCarry(_, _, _)
AddCarry(a, b, c) ==
  IF a = <<>> /\ b = <<>>
  THEN IF c = 0 THEN <<>> ELSE <<c>>
  ELSE LET x == IF a = <<>> THEN 0 ELSE Head(a)
           y == IF b = <<>> THEN 0 ELSE Head(b)
           s == x + y + c
       IN  <<s % Base>> \o AddCarry(IF a = <<>> THEN <<>> ELSE Tail(a),
                                    IF b = <<>> THEN <<>> ELSE Tail(b),
                                    s \div Base)

BigAdd(a, b) == AddCarry(a, b, 0)

\* -1, 0, 1 as a < b, a = b, a > b
RECURSIVE BigCmp(_, _)
BigCmp(a, b) ==
  IF Len(a) # Len(b) THEN (IF Len(a) < Len(b) THEN -1 ELSE 1)
  ELSE IF a = <<>> THEN 0
  ELSE IF a[Len(a)] # b[Len(b)] THEN (IF a[Len(a)] < b[Len(b)] THEN -1 ELSE 1)
  ELSE BigCmp(Trim(SubSeq(a, 1, Len(a) - 1)), Trim(SubSeq(b, 1, Len(b) - 1)))

BigLeq(a, b) == BigCmp(a, b) <= 0

RECURSIVE SubBorrow(_, _, _)
SubBorrow(a, b, c) ==
  IF a = <<>> THEN <<>>
  ELSE LET y == IF b = <<>> THEN 0 ELSE Head(b)
           d == Head(a) - y - c
       IN  <<d % Base>> \o SubBorrow(Tail(a),
                                     IF b = <<>> THEN <<>> ELSE Tail(b),
                                     IF d < 0 THEN 1 ELSE 0)

\* a - b for a >= b
BigSub(a, b) == Trim(SubBorrow(a, b, 0))

\* bit i of a, the least significant bit being bit 1
Bit(a, i) ==
  LET d == (i - 1) \div 10 + 1
  IN  IF d > Len(a) THEN 0 ELSE (a[d] \div 2^((i - 1) % 10)) % 2

BitLen(a) ==
  IF a = <<>> THEN 0
  ELSE (Len(a) - 1) * 10
         + (CHOOSE n \in 1..10 : 2^(n - 1) <= a[Len(a)] /\ a[Len(a)] < 2^n)

\* 2^k
Pow2(k) == [j \in 1..(k \div 10 + 1) |-> IF j = k \div 10 + 1 THEN 2^(k % 10) ELSE 0]

\* a with its k low bits cleared
ClearLow(a, k) ==
  Trim([j \in 1..Len(a) |->
          IF j * 10 <= k THEN 0
          ELSE IF (j - 1) * 10 >= k THEN a[j]
          ELSE a[j] - (a[j] % (2^(k - (j - 1) * 10)))])

\* a rounded to p significant bits, to nearest, ties to even
RoundToBits(a, p) ==
  LET k == BitLen(a) - p
  IN  IF k <= 0 THEN a
      ELSE LET half   == Bit(a, k) = 1
               sticky == \E i \in 1..(k - 1) : Bit(a, i) = 1
               odd    == Bit(a, k + 1) = 1
           IN  IF half /\ (sticky \/ odd)
               THEN BigAdd(ClearLow(a, k), Pow2(k))
               ELSE ClearLow(a, k)

(***************************************************************************)
(* Values.  fn = "lit": the number of sign neg and magnitude mag.          *)
(* fn = "cos" / "sin": what the host's Math.cos / Math.sin returns at the  *)
(* number of magnitude mag, for an argument outside the sample table       *)
(* below (ECMAScript leaves these functions implementation-approximated);  *)
(* f32 then tells that the value was rounded to float32.  Two equal values *)
(* denote equal numbers; values that are not literals are only ever        *)
(* compared for having been computed the same way.                         *)
(***************************************************************************)
Lit(neg, mag) == [fn |-> "lit", neg |-> neg /\ mag # <<>>, mag |-> mag, f32 |-> FALSE]

Zero == Lit(FALSE, <<>>)

One == Lit(FALSE, <<0, 0, 0, 0, 0, 0, 1>>)

\* unary minus
Neg(x) == IF x.fn = "lit" /\ x.mag = <<>> THEN x ELSE [x EXCEPT !.neg = ~x.neg]

\* x + y on doubles: the exact sum rounded to 53 significant bits
DoubleAdd(x, y) ==
  IF x.neg = y.neg THEN Lit(x.neg, RoundToBits(BigAdd(x.mag, y.mag), 53))
  ELSE IF BigLeq(y.mag, x.mag) THEN Lit(x.neg, RoundToBits(BigSub(x.mag, y.mag), 53))
  ELSE Lit(y.neg, RoundToBits(BigSub(y.mag, x.mag), 53))

\* the conversion of a Number to a float32 element: 24 significant bits
Fround(x) ==
  IF x.fn = "lit" THEN Lit(x.neg, RoundToBits(x.mag, 24)) ELSE [x EXCEPT !.f32 = TRUE]

\* new Float32Array([...]): every element converted to float32
Float32Array(xs) == [i \in DOMAIN xs |-> Fround(xs[i])]

\* the literal 0.01, the double 0x1.47AE147AE147Bp-7
AngleStep == Lit(FALSE, <<246, 778, 245, 778, 245, 10>>)

\* Math.cos and Math.sin at sample arguments: the doubles nearest the true values
\*   x = 0, 0.01, 0.01 + 0.01, 0.5, 1, 2, 4
TrigSamples ==
  << [x |-> <<>>, cos |-> One, sin |-> Zero],
     [x |-> <<246, 778, 245, 778, 245, 10>>,
      cos |-> Lit(FALSE, <<256, 757, 364, 585, 971, 1023>>),
      sin |-> Lit(FALSE, <<14, 756, 290, 599, 245, 10>>)],
     [x |-> <<492, 532, 491, 532, 491, 20>>,
      cos |-> Lit(FALSE, <<768, 434, 812, 298, 814, 1023>>),
      sin |-> Lit(FALSE, <<412, 344, 873, 124, 490, 20>>)],
     [x |-> <<0, 0, 0, 0, 0, 512>>,
      cos |-> Lit(FALSE, <<0, 938, 731, 12, 660, 898>>),
      sin |-> Lit(FALSE, <<0, 95, 300, 116, 954, 490>>)],
     [x |-> <<0, 0, 0, 0, 0, 0, 1>>,
      cos |-> Lit(FALSE, <<512, 209, 424, 31, 276, 553>>),
      sin |-> Lit(FALSE, <<768, 413, 72, 286, 682, 861>>)],
     [x |-> <<0, 0, 0, 0, 0, 0, 2>>,
      cos |-> Lit(TRUE, <<320, 800, 333, 599, 137, 426>>),
      sin |-> Lit(FALSE, <<768, 648, 653, 469, 123, 931>>)],
     [x |-> <<0, 0, 0, 0, 0, 0, 4>>,
      cos |-> Lit(TRUE, <<128, 152, 729, 13, 339, 669>>),
      sin |-> Lit(TRUE, <<768, 981, 736, 955, 988, 774>>)] >>

Sampled(x) == x.fn = "lit" /\ \E i \in DOMAIN TrigSamples : TrigSamples[i].x = x.mag

SampleOf(x) == TrigSamples[CHOOSE i \in DOMAIN TrigSamples : TrigSamples[i].x = x.mag]

\* Math.cos is even
MathCos(x) ==
  IF Sampled(x) THEN SampleOf(x).cos
  ELSE [fn |-> "cos", neg |-> FALSE, mag |-> x.mag, f32 |-> FALSE]

\* Math.sin is odd
MathSin(x) ==
  LET v == IF Sampled(x) THEN SampleOf(x).sin
           ELSE [fn |-> "sin", neg |-> FALSE, mag |-> x.mag, f32 |-> FALSE]
  IN  IF x.neg THEN Neg(v) ELSE v

(***************************************************************************)
(* createTransformationMatrix: the 16 elements in the order of the array   *)
(* literal, converted by the Float32Array constructor.                     *)
(***************************************************************************)
\* a faulty variant: the translation in the last element of the first two rows, the
\* rotation rows written as columns
createTransformationMatrix_rowMajor(rotation, tx, ty) ==
  LET cosTheta == MathCos(rotation)
      sinTheta == MathSin(rotation)
  IN  Float32Array(<< cosTheta,      sinTheta, Zero, tx,
                      Neg(sinTheta), cosTheta, Zero, ty,
                      Zero,          Zero,     One,  Zero,
                      Zero,          Zero,     Zero, One >>)

\* a faulty variant: the sign of the sine on the second column instead of the first
createTransformationMatrix_counterClockwise(rotation, tx, ty) ==
  LET cosTheta == MathCos(rotation)
      sinTheta == MathSin(rotation)
  IN  Float32Array(<< cosTheta,      sinTheta, Zero, Zero,
                      Neg(sinTheta), cosTheta, Zero, Zero,
                      Zero,          Zero,     One,  Zero,
                      tx,            ty,       Zero, One >>)

createTransformationMatrix(rotation, tx, ty) ==
  LET cosTheta == MathCos(rotation)
      sinTheta == MathSin(rotation)
  IN  Float32Array(<< cosTheta, Neg(sinTheta), Zero, Zero,
                      sinTheta, cosTheta,      Zero, Zero,
                      Zero,     Zero,          One,  Zero,
                      tx,       ty,            Zero, One >>)

(***************************************************************************)
(* The program's state.                                                    *)
(*   pc               where the module script / initWebGPU stands          *)
(*   errors           the console.error messages, in order                 *)
(*   rejections       rejected promises nobody handles (the host reports   *)
(*                    each one on the console)                             *)
(*   adapterRequests, deviceRequests   calls of requestAdapter/-Device     *)
(*   configured       calls of context.configure                           *)
(*   shaderModules    calls of device.createShaderModule                   *)
(*   buffers          the buffers device.createBuffer made, with contents  *)
(*   pipelines        the pipelines device.createRenderPipeline made       *)
(*   bindGroups       the bind groups device.createBindGroup made          *)
(*   listeners        click listeners installed on the canvas              *)
(*   rotationAngle, isRotating   the closure variables of lines 159-160    *)
(*   rafPending       callbacks requestAnimationFrame holds                *)
(*   frames, ticks, clickEvents, toggles, writes, submits, draws           *)
(*                    counts of frame() invocations, refresh ticks, click  *)
(*                    events dispatched, listener invocations,             *)
(*                    queue.writeBuffer calls, queue.submit calls and draw *)
(*                    commands submitted                                   *)
(*   submitted        the command buffer submitted last and the uniform    *)
(*                    data its draw reads                                  *)
(*   args, result     a direct call of createTransformationMatrix          *)
(***************************************************************************)
VARIABLES pc, errors, rejections, adapterRequests, deviceRequests,
          configured, shaderModules, buffers, pipelines, bindGroups, listeners,
          rotationAngle, isRotating, rafPending,
          frames, ticks, clickEvents, toggles, writes, submits, draws, submitted,
          args, result

startVars == <<pc, errors, rejections, adapterRequests, deviceRequests>>

worldVars == <<configured, shaderModules, buffers, pipelines, bindGroups, listeners,
               rotationAngle, isRotating, rafPending,
               frames, toggles, writes, submits, draws, submitted>>

callVars == <<args, result>>

vars == <<startVars, worldVars, ticks, clickEvents, callVars>>

\* what setup, the listener and frame() read and write, as one record
World ==
  [configured |-> configured, shaderModules |-> shaderModules, buffers |-> buffers,
   pipelines |-> pipelines, bindGroups |-> bindGroups, listeners |-> listeners,
   rotationAngle |-> rotationAngle, isRotating |-> isRotating,
   rafPending |-> rafPending, frames |-> frames, toggles |-> toggles,
   writes |-> writes, submits |-> submits, draws |-> draws, submitted |-> submitted]

Become(w) ==
  /\ configured' = w.configured
  /\ shaderModules' = w.shaderModules
  /\ buffers' = w.buffers
  /\ pipelines' = w.pipelines
  /\ bindGroups' = w.bindGroups
  /\ listeners' = w.listeners
  /\ rotationAngle' = w.rotationAngle
  /\ isRotating' = w.isRotating
  /\ rafPending' = w.rafPending
  /\ frames' = w.frames
  /\ toggles' = w.toggles
  /\ writes' = w.writes
  /\ submits' = w.submits
  /\ draws' = w.draws
  /\ submitted' = w.submitted

(***************************************************************************)
(* Set-up: lines 74-165 of initWebGPU.                                     *)
(***************************************************************************)
BYTES_PER_ELEMENT == 4

\* the array literal of lines 36-41 (0.6667, 0.5 and 0.3333 as doubles)
vertexData ==
  LET p6667 == <<384, 265, 62, 634, 717, 682>>
      p5    == <<0, 0, 0, 0, 0, 512>>
      p3333 == <<576, 758, 961, 389, 306, 341>>
  IN  Float32Array(<< Zero,           Lit(FALSE, p6667), One,  Zero, Zero,
                      Lit(TRUE, p5),  Lit(TRUE, p3333),  Zero, One,  Zero,
                      Lit(FALSE, p5), Lit(TRUE, p3333),  Zero, Zero, One >>)

\* the handles: the places of the two buffers among those the device made
vertexBuffer == 1

uniformBuffer == 2

UniformBufferSize == 256

VertexCount == 3

\* device.createBuffer mappedAtCreation, getMappedRange().set(data), unmap()
createMappedBuffer(size, usage, data) ==
  [size |-> size, usage |-> usage, data |-> data, uploads |-> 1]

\* device.createBuffer: the memory is zero-filled
createBuffer(size, usage) ==
  [size |-> size, usage |-> usage,
   data |-> [i \in 1..(size \div BYTES_PER_ELEMENT) |-> Zero], uploads |-> 0]

setup(w) ==
  [w EXCEPT
     !.configured = @ + 1,
     !.shaderModules = @ + 1,
     !.buffers = @ \o << createMappedBuffer(Len(vertexData) * BYTES_PER_ELEMENT,
                                            "VERTEX", vertexData),
                         createBuffer(UniformBufferSize, "UNIFORM|COPY_DST") >>,
     !.pipelines = Append(@, [arrayStride |-> 5 * BYTES_PER_ELEMENT,
                              positionOffset |-> 0,
                              colorOffset |-> 2 * BYTES_PER_ELEMENT,
                              topology |-> "triangle-list"]),
     !.bindGroups = Append(@, [binding |-> 0, buffer |-> uniformBuffer]),
     !.rotationAngle = Zero,
     !.isRotating = TRUE,
     !.listeners = @ + 1]

\* a faulty variant: the listener stops the rotation instead of toggling it
clickListener_stops(w) == [w EXCEPT !.isRotating = FALSE, !.toggles = @ + 1]

\* the click listener, lines 163-165
clickListener(w) == [w EXCEPT !.isRotating = ~@, !.toggles = @ + 1]

(***************************************************************************)
(* frame(): lines 168-201.                                                 *)
(***************************************************************************)
\* device.queue.writeBuffer(buffer, 0, data): done before any later submit
writeBuffer(bufs, h, data) ==
  [bufs EXCEPT ![h].data = [i \in DOMAIN @ |-> IF i <= Len(data) THEN data[i] ELSE @[i]],
               ![h].uploads = @ + 1]

\* 2*pi, the double 6.283185307179586
TwoPi == Lit(FALSE, <<0, 280, 267, 324, 1005, 289, 6>>)

\* a faulty variant: the transform is recomputed and written whether rotating or not
updateTransform_ignoresPause(w) ==
  LET angle == DoubleAdd(w.rotationAngle, AngleStep)
      transformationMatrix == createTransformationMatrix(angle, Zero, Zero)
  IN  [w EXCEPT !.rotationAngle = angle,
                !.buffers = writeBuffer(@, uniformBuffer, transformationMatrix),
                !.writes = @ + 1]

\* a faulty variant: the angle is wrapped into [0, 2*pi)
updateTransform_wraps(w) ==
  IF w.isRotating
  THEN LET sum   == DoubleAdd(w.rotationAngle, AngleStep)
           angle == IF BigLeq(TwoPi.mag, sum.mag) THEN DoubleAdd(sum, Neg(TwoPi)) ELSE sum
           transformationMatrix == createTransformationMatrix(angle, Zero, Zero)
       IN  [w EXCEPT !.rotationAngle = angle,
                     !.buffers = writeBuffer(@, uniformBuffer, transformationMatrix),
                     !.writes = @ + 1]
  ELSE w

\* lines 171-179
updateTransform(w) ==
  IF w.isRotating
  THEN LET angle == DoubleAdd(w.rotationAngle, AngleStep)
           tx == Zero
           ty == Zero
           transformationMatrix == createTransformationMatrix(angle, tx, ty)
       IN  [w EXCEPT !.rotationAngle = angle,
                     !.buffers = writeBuffer(@, uniformBuffer, transformationMatrix),
                     !.writes = @ + 1]
  ELSE w

Cmd(op, a, b) == [op |-> op, a |-> a, b |-> b]

\* the commands of lines 187-194; draw(3) draws one instance
renderPass ==
  << Cmd("beginRenderPass", 0, 0),
     Cmd("setPipeline", 1, 0),
     Cmd("setBindGroup", 0, 1),
     Cmd("setVertexBuffer", 0, vertexBuffer),
     Cmd("draw", VertexCount, 1),
     Cmd("end", 0, 0) >>

CountOp(cmds, op) == Cardinality({i \in DOMAIN cmds : cmds[i].op = op})

\* the uniform data a draw of the commands reads at submission
UniformSeen(w, cmds) ==
  LET g == cmds[CHOOSE i \in DOMAIN cmds : cmds[i].op = "setBindGroup"].b
  IN  SubSeq(w.buffers[w.bindGroups[g].buffer].data, 1, 16)

\* a faulty variant: the pipeline is built again in every frame
encodeAndSubmit_newPipeline(w) ==
  [w EXCEPT !.pipelines = Append(@, @[1]),
            !.submits = @ + 1,
            !.draws = @ + CountOp(renderPass, "draw"),
            !.submitted = [commands |-> renderPass,
                           uniform |-> UniformSeen(w, renderPass)]]

\* lines 181-197
encodeAndSubmit(w) ==
  [w EXCEPT !.submits = @ + 1,
            !.draws = @ + CountOp(renderPass, "draw"),
            !.submitted = [commands |-> renderPass,
                           uniform |-> UniformSeen(w, renderPass)]]

\* a faulty variant: the next frame is requested only while rotating
scheduleNext_whenRotating(w) ==
  IF w.isRotating THEN [w EXCEPT !.rafPending = @ + 1] ELSE w

\* line 200
scheduleNext(w) == [w EXCEPT !.rafPending = @ + 1]

\* a faulty variant: a paused frame returns without drawing
frame_pausedSkipsDraw(w) ==
  IF w.isRotating
  THEN scheduleNext(encodeAndSubmit(updateTransform([w EXCEPT !.frames = @ + 1])))
  ELSE scheduleNext([w EXCEPT !.frames = @ + 1])

\* a faulty variant: the pass is submitted before the transform is written
frame_submitsBeforeWrite(w) ==
  scheduleNext(updateTransform(encodeAndSubmit([w EXCEPT !.frames = @ + 1])))

frame(w) ==
  scheduleNext(encodeAndSubmit(updateTransform([w EXCEPT !.frames = @ + 1])))

(***************************************************************************)
(* The steps of the program.                                               *)
(***************************************************************************)
InitMachine ==
  /\ pc = "load"
  /\ errors = <<>>
  /\ rejections = 0
  /\ adapterRequests = 0
  /\ deviceRequests = 0
  /\ configured = 0
  /\ shaderModules = 0
  /\ buffers = <<>>
  /\ pipelines = <<>>
  /\ bindGroups = <<>>
  /\ listeners = 0
  /\ rotationAngle = Zero
  /\ isRotating = TRUE
  /\ rafPending = 0
  /\ frames = 0
  /\ ticks = 0
  /\ clickEvents = 0
  /\ toggles = 0
  /\ writes = 0
  /\ submits = 0
  /\ draws = 0
  /\ submitted = [commands |-> <<>>, uniform |-> <<>>]

Init == InitMachine /\ args = <<>> /\ result = <<>>

\* lines 207-212 and initWebGPU up to its first await
ModuleEntry ==
  /\ pc = "load"
  /\ \E gpu \in BOOLEAN :
       IF gpu
       THEN /\ pc' = "awaitAdapter"
            /\ adapterRequests' = adapterRequests + 1
            /\ UNCHANGED errors
       ELSE /\ pc' = "unsupported"
            /\ errors' = Append(errors, "WebGPU is not supported on this browser.")
            /\ UNCHANGED adapterRequests
  /\ UNCHANGED <<rejections, deviceRequests, worldVars, ticks, clickEvents, callVars>>

\* a faulty variant: no return after the missing adapter is reported; requestDevice is
\* then called on null, which throws
AdapterSettled_noReturn ==
  /\ pc = "awaitAdapter"
  /\ \E adapter \in {"adapter", "null"} :
       IF adapter = "null"
       THEN /\ pc' = "noAdapter"
            /\ errors' = Append(errors,
                 "WebGPU adapter not available. Your hardware or browser may not support WebGPU.")
            /\ rejections' = rejections + 1
            /\ UNCHANGED deviceRequests
       ELSE /\ pc' = "awaitDevice"
            /\ deviceRequests' = deviceRequests + 1
            /\ UNCHANGED <<errors, rejections>>
  /\ UNCHANGED <<adapterRequests, worldVars, ticks, clickEvents, callVars>>

\* lines 60-68: requestAdapter resolves with an adapter or with null
AdapterSettled ==
  /\ pc = "awaitAdapter"
  /\ \E adapter \in {"adapter", "null"} :
       IF adapter = "null"
       THEN /\ pc' = "noAdapter"
            /\ errors' = Append(errors,
                 "WebGPU adapter not available. Your hardware or browser may not support WebGPU.")
            /\ UNCHANGED deviceRequests
       ELSE /\ pc' = "awaitDevice"
            /\ deviceRequests' = deviceRequests + 1
            /\ UNCHANGED errors
  /\ UNCHANGED <<rejections, adapterRequests, worldVars, ticks, clickEvents, callVars>>

\* lines 68-204: requestDevice resolves with a device or a falsy value, or
\* rejects (the await throws, initWebGPU's promise rejects, nothing handles it);
\* with a device the rest of initWebGPU runs without a break, frame() included
DeviceSettled ==
  /\ pc = "awaitDevice"
  /\ \E device \in {"device", "null", "rejected"} :
       CASE device = "rejected" ->
              /\ pc' = "deviceRejected"
              /\ rejections' = rejections + 1
              /\ UNCHANGED <<errors, worldVars>>
         [] device = "null" ->
              /\ pc' = "noDevice"
              /\ errors' = Append(errors, "Failed to create WebGPU device.")
              /\ UNCHANGED <<rejections, worldVars>>
         [] OTHER ->
              /\ pc' = "rendering"
              /\ Become(frame(setup(World)))
              /\ UNCHANGED <<errors, rejections>>
  /\ UNCHANGED <<adapterRequests, deviceRequests, ticks, clickEvents, callVars>>

\* the host dispatches a click event on the canvas
Click ==
  /\ clickEvents < MaxClicks
  /\ clickEvents' = clickEvents + 1
  /\ IF listeners > 0 THEN Become(clickListener(World)) ELSE UNCHANGED worldVars
  /\ UNCHANGED <<startVars, ticks, callVars>>

\* the host's display refresh runs a callback requestAnimationFrame holds
RefreshTick(max) ==
  /\ rafPending > 0
  /\ ticks < max
  /\ ticks' = ticks + 1
  /\ Become(frame([World EXCEPT !.rafPending = @ - 1]))
  /\ UNCHANGED <<startVars, clickEvents, callVars>>

Tick == RefreshTick(MaxFrames)

LongTick == RefreshTick(MaxLongFrames)

Next == ModuleEntry \/ AdapterSettled \/ DeviceSettled \/ Click \/ Tick

Spec == Init /\ [][Next]_vars

\* a step that counts a refresh tick: Tick is the only such step of Next, and
\* it can be taken whenever a callback is pending below the bound
TickStep == rafPending > 0 /\ ticks < MaxFrames /\ ticks' = ticks + 1

\* the host keeps delivering refresh ticks while a callback is pending (weak
\* fairness of Tick)
FairSpec == Spec /\ WF_ticks(TickStep)

\* the run no click interrupts
NextLong == ModuleEntry \/ AdapterSettled \/ DeviceSettled \/ LongTick

SpecLong == Init /\ [][NextLong]_vars

(***************************************************************************)
(* Direct calls of createTransformationMatrix on sample arguments.         *)
(***************************************************************************)
SampleAngles == {Lit(FALSE, TrigSamples[i].x) : i \in DOMAIN TrigSamples}

\* 0, 0.5, -0.5, 1, the double 0.1, and 16777217 = 2^24 + 1
SampleCoords ==
  { Zero, Lit(FALSE, <<0, 0, 0, 0, 0, 512>>), Lit(TRUE, <<0, 0, 0, 0, 0, 512>>), One,
    Lit(FALSE, <<416, 614, 409, 614, 409, 102>>),
    Lit(FALSE, <<0, 0, 0, 0, 0, 0, 1, 0, 16>>) }

InitCall ==
  /\ InitMachine
  /\ args \in [rotation : SampleAngles, tx : SampleCoords, ty : SampleCoords]
  /\ result = <<>>

Call ==
  /\ result = <<>>
  /\ result' = createTransformationMatrix(args.rotation, args.tx, args.ty)
  /\ UNCHANGED <<startVars, worldVars, ticks, clickEvents, args>>

SpecCall == InitCall /\ [][Call]_vars

(***************************************************************************)
(* The claims.                                                             *)
(***************************************************************************)
Rendering == pc = "rendering"

Failed == pc \in {"unsupported", "noAdapter", "noDevice", "deviceRejected"}

\* what reaches the console: the program's messages and the host's reports
Diagnostics == Len(errors) + rejections

NothingRendered ==
  /\ configured = 0 /\ shaderModules = 0
  /\ buffers = <<>> /\ pipelines = <<>> /\ bindGroups = <<>>
  /\ listeners = 0 /\ rafPending = 0
  /\ frames = 0 /\ writes = 0 /\ submits = 0 /\ draws = 0

\* the uniform data the bound buffer holds now
UniformNow == SubSeq(buffers[uniformBuffer].data, 1, 16)

\* C1: every frame() invocation, rotating or paused, submits exactly one
\* command buffer holding one render pass with exactly one draw of 3 vertices
\* and 1 instance, so the draws submitted equal the frame invocations after
\* any interleaving of clicks and frames.
C1_OneDrawPerFrame ==
  /\ submits = frames
  /\ draws = frames
  /\ frames >= 1 =>
       LET cmds == submitted.commands
       IN  /\ cmds # <<>>
           /\ cmds[1].op = "beginRenderPass"
           /\ cmds[Len(cmds)].op = "end"
           /\ CountOp(cmds, "beginRenderPass") = 1
           /\ CountOp(cmds, "end") = 1
           /\ CountOp(cmds, "draw") = 1
           /\ \A i \in DOMAIN cmds : cmds[i].op = "draw" => cmds[i].a = 3 /\ cmds[i].b = 1

\* frames were drawn while rotating and while paused, clicks in between
C1_Witness ==
  /\ frames >= 4 /\ toggles >= 2 /\ writes >= 2 /\ frames >= writes + 2
  /\ draws = frames

\* C2: the flag is flipped after an odd number of clicks delivered to the
\* listener and back at its first value (true) after an even number, whatever
\* frames ran in between: every click dispatched once the listener is
\* installed negates it, and a frame() invocation never changes it.
C2_ToggleParity ==
  /\ [](isRotating = (toggles % 2 = 0))
  /\ [][(listeners = 1 /\ clickEvents' = clickEvents + 1)
         => (isRotating' = ~isRotating /\ toggles' = toggles + 1)]_vars
  /\ [][(Rendering /\ frames' = frames + 1) => isRotating' = isRotating]_vars

\* two clicks with paused frames in between and frames after them
C2_Witness ==
  /\ toggles = 2 /\ isRotating /\ frames >= writes + 1 /\ writes >= 2

\* C3: a frame() invocation that finds the flag false changes neither the
\* angle nor any buffer's contents and issues no writeBuffer; so any number
\* of consecutive paused frames leave the written transform as it was.
C3_PausedFrameWritesNothing ==
  [][(~isRotating /\ frames' = frames + 1)
       => (rotationAngle' = rotationAngle /\ buffers' = buffers /\ writes' = writes)]_vars

\* three paused frames in a row after two rotating ones
C3_Witness ==
  /\ toggles = 1 /\ ~isRotating /\ writes = 2 /\ frames = 5
  /\ UniformNow = createTransformationMatrix(rotationAngle, Zero, Zero)

(***************************************************************************)
(* Arithmetic the statements need and the program does not do.             *)
(***************************************************************************)
\* |a - b|
BigDist(a, b) == IF BigLeq(b, a) THEN BigSub(a, b) ELSE BigSub(b, a)

RECURSIVE MulCarry(_, _, _)
MulCarry(a, n, c) ==
  IF a = <<>>
  THEN IF c = 0 THEN <<>> ELSE <<c % Base>> \o MulCarry(<<>>, n, c \div Base)
  ELSE LET s == Head(a) * n + c
       IN  <<s % Base>> \o MulCarry(Tail(a), n, s \div Base)

\* a * n for a natural number n < 2^20
BigMulSmall(a, n) == Trim(MulCarry(a, n, 0))

RECURSIVE BigMul(_, _)
BigMul(a, b) ==
  IF a = <<>> \/ b = <<>> THEN <<>>
  ELSE BigAdd(BigMulSmall(a, Head(b)), <<0>> \o BigMul(a, Tail(b)))

\* n * x on doubles, n a natural number below 2^20: the exact product rounded
DoubleTimes(n, x) == Lit(x.neg, RoundToBits(BigMulSmall(x.mag, n), 53))

\* C4, as claimed: while the flag stays true the angle after N frames is the
\* number 0.01 * N (the product as JavaScript computes it).
C4_AngleIsStepTimesFrames ==
  (Rendering /\ toggles = 0) => rotationAngle = DoubleTimes(frames, AngleStep)

\* half a unit in the last place of a double of magnitude a
HalfUlp(a) == IF BitLen(a) >= 54 THEN Pow2(BitLen(a) - 54) ELSE <<1>>

\* C4, amended: while the flag stays true each frame adds 0.01 once, in
\* double arithmetic: after N frames the angle is positive, within N half
\* units in the last place of the exact N * 0.01, equal to the double
\* 0.01 * N for N <= 5, and never reduced modulo 2*pi.
C4_AngleAccumulatesRoundedSteps ==
  (Rendering /\ toggles = 0) =>
     /\ rotationAngle.fn = "lit" /\ ~rotationAngle.neg
     /\ BigLeq(BigDist(rotationAngle.mag, BigMulSmall(AngleStep.mag, frames)),
               BigMulSmall(HalfUlp(rotationAngle.mag), frames))
     /\ frames <= 5 => rotationAngle = DoubleTimes(frames, AngleStep)
     /\ writes = frames

\* the angle has passed 2*pi
C4_Witness ==
  /\ Rendering /\ toggles = 0 /\ frames >= 629
  /\ BigCmp(rotationAngle.mag, TwoPi.mag) = 1

\* C5: at every submission the draw reads the transform of the current angle
\* with translation (0,0): a rotating frame's write is queued before its
\* submit, a paused frame finds the last rotating frame's transform, and no
\* draw is submitted before the first write.
C5_DrawReadsCurrentTransform ==
  submits >= 1 =>
     /\ writes >= 1
     /\ submitted.uniform = createTransformationMatrix(rotationAngle, Zero, Zero)
     /\ UniformNow = submitted.uniform

\* a paused frame drew with the transform of the last rotating frame
C5_Witness ==
  /\ ~isRotating /\ writes >= 2 /\ frames >= writes + 2 /\ submits = frames

\* C6: each start-up failure (no navigator.gpu, no adapter, no device) puts
\* exactly one diagnostic on the console and leaves nothing rendered: no
\* surface configured, no resource, no listener, no frame; a diagnostic
\* appears only on such a failure; the adapter and the device are requested
\* at most once; and a failed start-up stays as it is.
C6_StartupFailureIsTerminal ==
  /\ [](/\ Failed => (Diagnostics = 1 /\ NothingRendered)
        /\ Diagnostics > 0 => Failed
        /\ adapterRequests <= 1 /\ deviceRequests <= 1
        /\ pc = "unsupported" => adapterRequests = 0
        /\ pc \in {"unsupported", "noAdapter"} => deviceRequests = 0)
  /\ [][Failed => UNCHANGED <<startVars, worldVars, ticks>>]_vars

\* the device request failed and clicks arrived afterwards
C6_Witness ==
  /\ pc = "noDevice" /\ clickEvents >= 2
  /\ errors = <<"Failed to create WebGPU device.">>

\* C7: once set-up succeeded exactly one callback is pending between frames,
\* every refresh tick has run one whole frame() (a submit included), rotating
\* or paused, and under a host that keeps ticking the loop goes on up to the
\* bound on ticks; nothing is pending and no frame runs otherwise.
C7_FrameLoopNeverStops ==
  /\ [](/\ Rendering => (rafPending = 1 /\ frames = ticks + 1 /\ submits = frames)
        /\ ~Rendering => (rafPending = 0 /\ frames = 0 /\ ticks = 0))
  /\ (Rendering ~> ticks = MaxFrames)

\* ticks were served while paused
C7_Witness ==
  /\ Rendering /\ ~isRotating /\ ticks >= 3 /\ frames >= writes + 2 /\ rafPending = 1

\* C8: whenever a frame has run, set-up is complete and made exactly one
\* surface configuration, shader module, pipeline, bind group, vertex buffer
\* (3 vertices of 5 floats, written once) and uniform buffer (256 >= 64
\* bytes); no frame runs before; frames add, resize or rewrite none of them.
C8_ResourcesCreatedOnce ==
  /\ ~Rendering => frames = 0
  /\ frames >= 1 =>
       /\ Rendering
       /\ configured = 1 /\ shaderModules = 1 /\ listeners = 1
       /\ Len(pipelines) = 1 /\ Len(bindGroups) = 1 /\ Len(buffers) = 2
       /\ pipelines[1].arrayStride = 5 * 4
       /\ bindGroups[1].buffer = uniformBuffer
       /\ Cardinality({i \in DOMAIN buffers : buffers[i].usage = "VERTEX"}) = 1
       /\ buffers[vertexBuffer].usage = "VERTEX"
       /\ buffers[vertexBuffer].size = 3 * 5 * 4
       /\ Len(buffers[vertexBuffer].data) = 3 * 5
       /\ buffers[vertexBuffer].data = vertexData
       /\ buffers[vertexBuffer].uploads = 1
       /\ buffers[uniformBuffer].usage = "UNIFORM|COPY_DST"
       /\ buffers[uniformBuffer].size >= 64
       /\ Len(buffers[uniformBuffer].data) * 4 = buffers[uniformBuffer].size
       /\ buffers[uniformBuffer].uploads = writes

\* several frames, rotating and paused, have run
C8_Witness == frames >= 5 /\ toggles >= 1 /\ writes >= 2 /\ frames > writes

\* column c (0..3) of a column-major 4x4 matrix
Column(m, c) == SubSeq(m, 4 * c + 1, 4 * c + 4)

\* element (row r, column c) of a column-major 4x4 matrix
Entry(m, r, c) == m[4 * c + r + 1]

Identity ==
  << One, Zero, Zero, Zero,  Zero, One, Zero, Zero,
     Zero, Zero, One, Zero,  Zero, Zero, Zero, One >>

Called == result # <<>>

\* C9, as claimed: the columns are (cos, -sin, 0, 0), (sin, cos, 0, 0),
\* (0, 0, 1, 0) and (tx, ty, 0, 1) for all inputs.
C9_ColumnsAreExact ==
  Called =>
    LET c == MathCos(args.rotation)
        s == MathSin(args.rotation)
    IN  /\ Column(result, 0) = <<c, Neg(s), Zero, Zero>>
        /\ Column(result, 1) = <<s, c, Zero, Zero>>
        /\ Column(result, 2) = <<Zero, Zero, One, Zero>>
        /\ Column(result, 3) = <<args.tx, args.ty, Zero, One>>

\* C9, amended: the columns are those values rounded to float32; column 3 is
\* (tx, ty, 0, 1) itself when tx and ty are float32 numbers, for every angle;
\* the result for (0, 0, 0) is the identity matrix.
C9_ColumnsAreFloat32Rounded ==
  Called =>
    LET c == Fround(MathCos(args.rotation))
        s == Fround(MathSin(args.rotation))
    IN  /\ Column(result, 0) = <<c, Neg(s), Zero, Zero>>
        /\ Column(result, 1) = <<s, c, Zero, Zero>>
        /\ Column(result, 2) = <<Zero, Zero, One, Zero>>
        /\ Column(result, 3) = <<Fround(args.tx), Fround(args.ty), Zero, One>>
        /\ (Fround(args.tx) = args.tx /\ Fround(args.ty) = args.ty)
             => Column(result, 3) = <<args.tx, args.ty, Zero, One>>
        /\ (args.rotation = Zero /\ args.tx = Zero /\ args.ty = Zero)
             => result = Identity

\* a call whose cosine, sine and translation all need rounding
C9_Witness ==
  /\ Called
  /\ args.rotation = AngleStep
  /\ args.tx = Lit(FALSE, <<0, 0, 0, 0, 0, 0, 1, 0, 16>>)
  /\ args.ty = Lit(FALSE, <<416, 614, 409, 614, 409, 102>>)
  /\ result[13] = Lit(FALSE, <<0, 0, 0, 0, 0, 0, 0, 0, 16>>)
  /\ result[1] # MathCos(args.rotation)

(***************************************************************************)
(* Exact arithmetic on the elements of a matrix: a product of two elements *)
(* is a signed number of units of 2^-120.                                  *)
(***************************************************************************)
Times(x, y) ==
  LET m == BigMul(x.mag, y.mag) IN [neg |-> (x.neg # y.neg) /\ m # <<>>, mag |-> m]

Plus(x, y) ==
  IF x.neg = y.neg THEN [neg |-> x.neg, mag |-> BigAdd(x.mag, y.mag)]
  ELSE IF x.mag = y.mag THEN [neg |-> FALSE, mag |-> <<>>]
  ELSE IF BigLeq(y.mag, x.mag) THEN [neg |-> x.neg, mag |-> BigSub(x.mag, y.mag)]
  ELSE [neg |-> y.neg, mag |-> BigSub(y.mag, x.mag)]

Minus(x, y) == Plus(x, [neg |-> ~y.neg /\ y.mag # <<>>, mag |-> y.mag])

\* 1 in units of 2^-120
UnitSquare == [neg |-> FALSE, mag |-> Pow2(120)]

\* C10, as claimed (read up to the rounding to float32): in the column-major
\* matrix the first row of the upper-left block is (cos, -sin) and the second
\* row is (sin, cos).
C10_BlockRowsAsClaimed ==
  Called =>
    LET c == Fround(MathCos(args.rotation))
        s == Fround(MathSin(args.rotation))
    IN  /\ Entry(result, 0, 0) = c /\ Entry(result, 0, 1) = Neg(s)
        /\ Entry(result, 1, 0) = s /\ Entry(result, 1, 1) = c

\* C10, amended: the first row of the block is (cos, sin) and the second row
\* is (-sin, cos), rounded to float32 (the transpose of the claimed block: the
\* rotation by -theta); its columns are exactly orthogonal and of equal
\* length, and its determinant is within 2^-22 of 1.
C10_BlockIsTransposedRotation ==
  Called =>
    LET c   == Fround(MathCos(args.rotation))
        s   == Fround(MathSin(args.rotation))
        m00 == Entry(result, 0, 0)
        m01 == Entry(result, 0, 1)
        m10 == Entry(result, 1, 0)
        m11 == Entry(result, 1, 1)
        det == Minus(Times(m00, m11), Times(m01, m10))
    IN  /\ m00 = c /\ m01 = s
        /\ m10 = Neg(s) /\ m11 = c
        /\ Plus(Times(m00, m01), Times(m10, m11)).mag = <<>>
        /\ Plus(Times(m00, m00), Times(m10, m10)) = Plus(Times(m01, m01), Times(m11, m11))
        /\ ~det.neg
        /\ BigLeq(Minus(det, UnitSquare).mag, Pow2(98))

\* a call at 1 radian without translation: the sine is not 0
C10_Witness ==
  /\ Called
  /\ args.rotation = One /\ args.tx = Zero /\ args.ty = Zero
  /\ Entry(result, 0, 1) = Fround(MathSin(One))
  /\ Entry(result, 0, 1) # Zero

====
